---------------------------- MODULE Spec2Model ----------------------------
(***************************************************************************)
(* The sample-to-raster pipeline of vectorscope (src/src/main.rs): the     *)
(* mutex-guarded sample queue shared by the audio callback and the render  *)
(* tick, the front buffer, the coordinate mapping, the Bresenham segment   *)
(* plotting into the persistence grid, and Plot::done (grid, compositing,  *)
(* fade).                                                                  *)
(*                                                                         *)
(* Samples are f32 in the source.  Here a sample is an integer number of   *)
(* halves (2 stands for 1.0, -3 for -1.5): every product and sum get_xy    *)
(* forms from such values and a small width is exact in f32, so the        *)
(* integer arithmetic below is the f32 arithmetic.                          *)
(***************************************************************************)
EXTENDS Integers, Sequences, FiniteSets

\* ------------------------------------------------------------- bounds
\* Window size in cells (the source opens 800x800 and reads the real size).
Width == 4
Height == 3
\* The swap threshold; the source sets 2048, the model scales it down.
BUFFER_SIZE == 1
\* Samples delivered in a run.
MaxAppended == 5
\* Render ticks (RedrawRequested events) explored.
MaxTicks == 3
\* Fades in a row that are counted (no u8 needs more to reach 0).
MaxFadeFrames == 26
\* Largest width and height get_xy is applied to when taken alone.
MaxSide == 6

\* Sample values, in halves: -1.5, 0.0, 1.0.
Samples == {-3, 0, 2}

\* ---------------------------------------------------------- constants
DIVISIONS == 5
DIV_BRIGHTNESS == 24
INTENSITY == 16
U8_MAX == 255

VARIABLES
    samples_back,   \* Arc<Mutex<Vec<f32>>>: the shared queue
    mutex,          \* who holds the queue's mutex: "free", "audio", "render"
    audio_pc,       \* position of the input stream callback
    in_samples,     \* the chunk the running callback was handed
    render_pc,      \* position of the render tick
    samples_front,  \* AudioState.samples_front
    last_sample,    \* AudioState.last_sample
    previous_pos1,  \* Plot.previous_pos1
    chunk_i,        \* chunks of samples_front already consumed by the loop
    plot,           \* the persistence grid (main's `plot` vector)
    pixels,         \* the RGBA frame
    ticks,          \* render ticks started
    appended,       \* history: every sample appended, in order
    drained,        \* history: every batch drained, concatenated
    tick_queue,     \* history: the queue as the tick found it
    tick_front,     \* history: the front buffer as the tick found it
    frame_swapped,  \* history: whether this tick swapped
    frame_pairs,    \* history: the pairs this tick's loop consumed
    frame_dots,     \* history: the segments this tick passed to Plot::dot
    frame_hits,     \* history: the cells this tick accumulated into
    plot_drawn,     \* history: the grid as Plot::done found it
    cell,           \* one u8 cell, for the cell arithmetic taken alone
    cell_from,      \* its value before the last operation
    cell_op,        \* the last operation applied to it
    cell_color,     \* the colour last looked up for it
    cell_fades,     \* history: fades applied to it in a row, counted to MaxFadeFrames
    window_size,    \* main's window_size, read once before the event loop
    window_inner,   \* the window's inner size (window.inner_size())
    surface_size,   \* the size of the surface `pixels` presents on
    map_in,         \* get_xy taken alone: <<width, height, left, right>>
    map_out,        \* get_xy taken alone: the coordinate returned
    map_op          \* get_xy taken alone: whether it has been applied

vars == <<samples_back, mutex, audio_pc, in_samples, render_pc, samples_front,
          last_sample, previous_pos1, chunk_i, plot, pixels, ticks, appended,
          drained, tick_queue, tick_front, frame_swapped, frame_pairs,
          frame_dots, frame_hits, plot_drawn, cell, cell_from, cell_op,
          cell_color, cell_fades, window_size, window_inner, surface_size,
          map_in, map_out, map_op>>

pipeline_vars == <<samples_back, mutex, audio_pc, in_samples, render_pc,
          samples_front, last_sample, previous_pos1, chunk_i, plot, pixels,
          ticks, appended, drained, tick_queue, tick_front, frame_swapped,
          frame_pairs, frame_dots, frame_hits, plot_drawn>>

cell_vars == <<cell, cell_from, cell_op, cell_color, cell_fades>>

window_vars == <<window_size, window_inner, surface_size>>

map_vars == <<map_in, map_out, map_op>>

Cells == 0 .. (Width * Height - 1)

Min(a, b) == IF a < b THEN a ELSE b

\* `as i32` / `as u8` of a quotient n/d with d > 0: truncation toward zero.
TruncDiv(n, d) == IF n >= 0 THEN n \div d ELSE -((-n) \div d)

\* Chunks the audio host may deliver: an odd and an even number of samples.
ChunkLens == {1, 2}
Chunks == UNION {[1..n -> Samples] : n \in ChunkLens}


\* ------------------------------------------------------ the sample queue
\* Variant: a lock that excludes nobody.
MutexIgnored(m) == TRUE

\* Mutex::lock returns only once no other context holds the guard.
MutexAvailable(m) == m = "free"

\* Variant: the threshold test written `>=`.
AtLeastThreshold(len) == len >= BUFFER_SIZE

\* `samples.len() > BUFFER_SIZE`
ExceedsThreshold(len) == len > BUFFER_SIZE

\* Variant: the flip without samples_front.clear().
FlipNoClear(front, back) ==
    IF ExceedsThreshold(Len(back))
    THEN [front |-> front \o back, swapped |-> TRUE]
    ELSE [front |-> front, swapped |-> FALSE]

\* Variant: samples_front.clear() hoisted out of the `if`.
FlipClearAlways(front, back) ==
    IF ExceedsThreshold(Len(back))
    THEN [front |-> back, swapped |-> TRUE]
    ELSE [front |-> <<>>, swapped |-> FALSE]

\* The flip: above the threshold the front buffer is cleared and refilled from
\* the drain of the whole queue; otherwise it is not touched.
Flip(front, back) ==
    IF ExceedsThreshold(Len(back))
    THEN [front |-> back, swapped |-> TRUE]
    ELSE [front |-> front, swapped |-> FALSE]

\* Variant: windows(2), overlapping pairs.
Windows(front) ==
    [k \in 1 .. (IF Len(front) = 0 THEN 0 ELSE Len(front) - 1) |->
        <<front[k], front[k + 1]>>]

\* Variant: the queue copied to the front buffer, not drained.
drain_copies(back) == back

\* What `samples.drain(..)` leaves in the queue once dropped: nothing.
drain_leaves(back) == <<>>

\* Variant: the guard lives to the end of render (no block around the flip).
flip_block_held(m) == m

\* The mutex once the "flip buffers" block is left: the guard is dropped.
flip_block_exit(m) == "free"

\* Variant: the loop stops after the first chunk.
ChunksFirstOnly(front) ==
    [k \in 1 .. (IF Len(front) >= 2 THEN 1 ELSE 0) |->
        <<front[2 * k - 1], front[2 * k]>>]

\* samples_front.chunks_exact(2): the k-th chunk, k = 0, 1, ...
ChunksExact(front) ==
    [k \in 1 .. (Len(front) \div 2) |-> <<front[2 * k - 1], front[2 * k]>>]

\* Variant: every segment starts from the (0.0, 0.0) sample.
previous_sample_origin(last) == <<0, 0>>

\* `let (previous_left, previous_right) = self.last_sample`
previous_sample(last) == last

\* --------------------------------------------------- coordinate mapping
\* Variant: the cast rounding down instead of toward zero.
get_xy_floor(w, h, left, right) ==
    <<(left * w + 2 * w) \div 4, ((-right) * h + 2 * h) \div 4>>

\* Variant: the right channel not inverted.
get_xy_unflipped(w, h, left, right) ==
    <<TruncDiv(left * w + 2 * w, 4), TruncDiv(right * h + 2 * h, 4)>>

\* get_xy with half_width = w / 2.0, half_height = h / 2.0 and the samples in
\* halves: left/2 * w/2 + w/2 = (left * w + 2 * w) / 4, cast with `as i32`.
get_xy(w, h, left, right) ==
    <<TruncDiv(left * w + 2 * w, 4), TruncDiv((-right) * h + 2 * h, 4)>>

\* ---------------------------------------------- line_drawing::Bresenham
\* Octant::new: the octant of the direction start -> end.
Octant(x0, y0, x1, y1) ==
    LET dx0 == x1 - x0
        dy0 == y1 - y0
        f4  == dy0 < 0
        dx1 == IF f4 THEN -dx0 ELSE dx0
        dy1 == IF f4 THEN -dy0 ELSE dy0
        f2  == dx1 < 0
        dx2 == IF f2 THEN dy1 ELSE dx1
        dy2 == IF f2 THEN -dx1 ELSE dy1
    IN  (IF f4 THEN 4 ELSE 0) + (IF f2 THEN 2 ELSE 0) + (IF dx2 < dy2 THEN 1 ELSE 0)

\* Octant::to: into the first octant.
OctantTo(o, x, y) ==
    CASE o = 0 -> <<x, y>>
      [] o = 1 -> <<y, x>>
      [] o = 2 -> <<y, -x>>
      [] o = 3 -> <<-x, y>>
      [] o = 4 -> <<-x, -y>>
      [] o = 5 -> <<-y, -x>>
      [] o = 6 -> <<-y, x>>
      [] OTHER -> <<x, -y>>

\* Octant::from: back from the first octant.
OctantFrom(o, x, y) ==
    CASE o = 0 -> <<x, y>>
      [] o = 1 -> <<y, x>>
      [] o = 2 -> <<-y, x>>
      [] o = 3 -> <<-x, y>>
      [] o = 4 -> <<-x, -y>>
      [] o = 5 -> <<-y, -x>>
      [] o = 6 -> <<y, -x>>
      [] OTHER -> <<x, -y>>

\* Bresenham::next, repeated until the iterator is exhausted.
RECURSIVE BresenhamNext(_, _, _, _, _, _, _)
BresenhamNext(o, px, py, error, end_x, delta_x, delta_y) ==
    IF px > end_x
    THEN <<>>
    ELSE <<OctantFrom(o, px, py)>> \o
         BresenhamNext(o, px + 1,
                       IF error >= 0 THEN py + 1 ELSE py,
                       (IF error >= 0 THEN error - delta_x ELSE error) + delta_y,
                       end_x, delta_x, delta_y)

\* Bresenham::new((x0, y0), (x1, y1)) as the sequence of cells it yields.
Bresenham(x0, y0, x1, y1) ==
    LET o     == Octant(x0, y0, x1, y1)
        start == OctantTo(o, x0, y0)
        end   == OctantTo(o, x1, y1)
        delta_x == end[1] - start[1]
        delta_y == end[2] - start[2]
    IN  BresenhamNext(o, start[1], start[2], delta_y - delta_x, end[1],
                      delta_x, delta_y)

\* ------------------------------------------------------------- Plot
\* Variant: u8::wrapping_add.
wrapping_add(v, n) == (v + n) % (U8_MAX + 1)

\* u8::saturating_add
saturating_add(v, n) == IF v + n > U8_MAX THEN U8_MAX ELSE v + n

\* Variant: the bounds test with inclusive ranges, 0..=width and 0..=height.
InBoundsInclusive(w, h, x, y) == 0 <= x /\ x <= w /\ 0 <= y /\ y <= h

\* The bounds test of Plot::pixel: (0..width).contains(&x) && (0..height).contains(&y)
InBounds(w, h, x, y) == 0 <= x /\ x < w /\ 0 <= y /\ y < h

\* Plot::plot_index
plot_index(w, x, y) == x + y * w

\* Plot::pixel as the writes it performs: the index it accumulates into, if any.
pixel(w, h, x, y) ==
    IF InBounds(w, h, x, y) THEN <<<<x, y, plot_index(w, x, y)>>>> ELSE <<>>

\* Plot::dot as the writes it performs: every cell of the line that differs
\* from previous_pos1 goes to Plot::point, which is Plot::pixel.
RECURSIVE DotWrites(_, _, _, _)
DotWrites(w, h, line, prev) ==
    IF line = <<>>
    THEN <<>>
    ELSE (IF Head(line) # prev
          THEN pixel(w, h, Head(line)[1], Head(line)[2])
          ELSE <<>>) \o DotWrites(w, h, Tail(line), prev)

dot(w, h, prev, x0, y0, x1, y1) == DotWrites(w, h, Bresenham(x0, y0, x1, y1), prev)

\* The grid after a sequence of writes, each `plot[i] = plot[i].saturating_add(16)`.
RECURSIVE ApplyWrites(_, _)
ApplyWrites(p, writes) ==
    IF writes = <<>>
    THEN p
    ELSE LET i == Head(writes)[3]
         IN  ApplyWrites(IF i \in DOMAIN p
                         THEN [p EXCEPT ![i] = saturating_add(p[i], INTENSITY)]
                         ELSE p,
                         Tail(writes))

\* const fn to_u8
to_u8(x) == IF x < 0 THEN 0 ELSE IF x > U8_MAX THEN U8_MAX ELSE x

\* Variant: red and blue cast with `as u8` (which wraps) instead of to_u8.
INTENSITY_COLORS_cast(n) ==
    LET rb == TruncDiv((n - 128) * 3, 2) % (U8_MAX + 1)
    IN  <<rb, to_u8(n * 2), rb>>

\* Plot::INTENSITY_COLORS[n]: (n - 128) as f32 * 1.5 is exact, `as i32` truncates.
INTENSITY_COLORS(n) ==
    LET rb == to_u8(TruncDiv((n - 128) * 3, 2))
    IN  <<rb, to_u8(n * 2), rb>>

\* Variant: the product rounded up instead of truncated.
FadeCeiling(v) == (v * 85 + 99) \div 100

\* Variant: the product rounded to the nearest integer instead of truncated.
FadeRounded(v) == (v * 85 + 50) \div 100

\* 0.85f32 is FADE_MANTISSA / 2^24.
FADE_MANTISSA == 14260634

\* Number of bits of n >= 0.
RECURSIVE BitLen(_)
BitLen(n) == IF n = 0 THEN 0 ELSE 1 + BitLen(n \div 2)

\* `(v as f32 * 0.85) as u8`: the exact product v * FADE_MANTISSA, kept in two
\* limbs of 12 bits (it does not fit 31 bits), rounded to the 24 bits of an
\* f32 mantissa (to nearest, ties to even), scaled by 2^-24 and truncated.
Fade(v) ==
    LET mh  == FADE_MANTISSA \div 4096
        ml  == FADE_MANTISSA % 4096
        hi  == v * mh + (v * ml) \div 4096
        lo  == (v * ml) % 4096
        len == 12 + BitLen(hi)
        d   == IF len > 24 THEN len - 24 ELSE 0
        q   == lo \div (2 ^ d)
        r   == lo % (2 ^ d)
        up  == d > 0 /\ (2 * r > 2 ^ d \/ (2 * r = 2 ^ d /\ q % 2 = 1))
        lo2 == (IF up THEN q + 1 ELSE q) * (2 ^ d)
        hi2 == IF lo2 >= 4096 THEN hi + 1 ELSE hi
    IN  Min(U8_MAX, hi2 \div 4096)

\* Whether cell (x, y) lies on a line of the reference grid Plot::done draws.
OnGrid(w, h, x, y) ==
    LET division_width  == w \div DIVISIONS
        division_height == h \div DIVISIONS
        half_division_width  == division_width \div 2
        half_division_height == division_height \div 2
    IN  \E div \in 0 .. (DIVISIONS - 1) :
            \/ x = half_division_width + division_width * div
            \/ y = half_division_height + division_height * div

\* Variant: no background pass, the frame is drawn over the pixels it held.
CompositeOnPrevious(w, h, p) ==
    LET grid == [i \in DOMAIN p |->
                    IF OnGrid(w, h, i % w, i \div w)
                    THEN <<DIV_BRIGHTNESS, DIV_BRIGHTNESS, DIV_BRIGHTNESS,
                           pixels[i][4]>>
                    ELSE pixels[i]]
    IN  [i \in DOMAIN p |->
            LET color == INTENSITY_COLORS(p[i])
            IN  <<saturating_add(grid[i][1], color[1]),
                  saturating_add(grid[i][2], color[2]),
                  saturating_add(grid[i][3], color[3]),
                  grid[i][4]>>]

\* Plot::done up to the frame: background, grid, then the dots added on top.
Composite(w, h, p) ==
    LET background == [i \in DOMAIN p |-> <<0, 0, 0, 0>>]
        grid == [i \in DOMAIN p |->
                    IF OnGrid(w, h, i % w, i \div w)
                    THEN <<DIV_BRIGHTNESS, DIV_BRIGHTNESS, DIV_BRIGHTNESS,
                           background[i][4]>>
                    ELSE background[i]]
    IN  [i \in DOMAIN p |->
            LET color == INTENSITY_COLORS(p[i])
            IN  <<saturating_add(grid[i][1], color[1]),
                  saturating_add(grid[i][2], color[2]),
                  saturating_add(grid[i][3], color[3]),
                  grid[i][4]>>]

\* Plot::done, "fading out": every cell of the grid is faded.
FadeAll(p) == [i \in DOMAIN p |-> Fade(p[i])]

\* Variant: fading out before the dots are composited.
done_fade_first(w, h, p) ==
    [pixels |-> Composite(w, h, FadeAll(p)), plot |-> FadeAll(p)]

\* Plot::done: the frame is composited from the grid, then the grid fades.
done(w, h, p) == [pixels |-> Composite(w, h, p), plot |-> FadeAll(p)]

\* ------------------------------------------------------- initial state
\* AudioState::new (empty queue and front buffer, last_sample (0.0, 0.0)) and
\* main before the event loop (zero-filled grid, the frame not yet drawn).
PipelineInit ==
    /\ samples_back = <<>>
    /\ mutex = "free"
    /\ audio_pc = "idle"
    /\ in_samples = <<>>
    /\ render_pc = "idle"
    /\ samples_front = <<>>
    /\ last_sample = <<0, 0>>
    /\ previous_pos1 = <<0, 0>>
    /\ chunk_i = 0
    /\ plot = [i \in Cells |-> 0]
    /\ pixels = [i \in Cells |-> <<0, 0, 0, 0>>]
    /\ ticks = 0
    /\ appended = <<>>
    /\ drained = <<>>
    /\ tick_queue = <<>>
    /\ tick_front = <<>>
    /\ frame_swapped = FALSE
    /\ frame_pairs = <<>>
    /\ frame_dots = <<>>
    /\ frame_hits = <<>>
    /\ plot_drawn = [i \in Cells |-> 0]

CellIdle ==
    /\ cell = 0
    /\ cell_from = 0
    /\ cell_op = "none"
    /\ cell_color = <<0, 0, 0>>
    /\ cell_fades = 0

\* main: window_size = window.inner_size(), and the surface made of that size.
WindowInit ==
    /\ window_size = <<Width, Height>>
    /\ window_inner = <<Width, Height>>
    /\ surface_size = <<Width, Height>>

MapIdle ==
    /\ map_in = <<Width, Height, 0, 0>>
    /\ map_out = <<0, 0>>
    /\ map_op = "none"

Init == PipelineInit /\ WindowInit /\ CellIdle /\ MapIdle

\* ------------------------------------------- the input stream callback
\* The audio host calls the callback with the next chunk: samples.lock().unwrap()
\* returns once the mutex is free, and samples.extend(in_samples.iter()).
callback(chunk, history) ==
    /\ audio_pc = "idle"
    /\ MutexAvailable(mutex)
    /\ in_samples' = chunk
    /\ samples_back' = samples_back \o chunk
    /\ appended' = history
    /\ mutex' = "audio"
    /\ audio_pc' = "unlock"
    /\ UNCHANGED <<render_pc, samples_front, last_sample,
                   previous_pos1, chunk_i, plot, pixels, ticks, drained,
                   tick_queue, tick_front, frame_swapped, frame_pairs,
                   frame_dots, frame_hits, plot_drawn, cell_vars,
                   window_vars, map_vars>>

\* Any chunk, while the explored number of samples allows it.
AudioCallback ==
    \E chunk \in Chunks :
        /\ Len(appended) + Len(chunk) <= MaxAppended
        /\ callback(chunk, appended \o chunk)

\* The guard is dropped at the end of the callback.
AudioUnlock ==
    /\ audio_pc = "unlock"
    /\ mutex' = "free"
    /\ audio_pc' = "idle"
    /\ in_samples' = <<>>
    /\ UNCHANGED <<samples_back, render_pc, samples_front, last_sample,
                   previous_pos1, chunk_i, plot, pixels, ticks, appended,
                   drained, tick_queue, tick_front, frame_swapped, frame_pairs,
                   frame_dots, frame_hits, plot_drawn, cell_vars,
                   window_vars, map_vars>>

\* ------------------------------------------------------ the render tick
\* Event::RedrawRequested: a Plot is built with previous_pos1 (0, 0) and
\* AudioState::render is entered.
redraw_requested(count) ==
    /\ render_pc = "idle"
    /\ ticks' = count
    /\ previous_pos1' = <<0, 0>>
    /\ render_pc' = "lock"
    /\ tick_front' = samples_front
    /\ tick_queue' = <<>>
    /\ frame_swapped' = FALSE
    /\ frame_pairs' = <<>>
    /\ frame_dots' = <<>>
    /\ frame_hits' = <<>>
    /\ UNCHANGED <<samples_back, mutex, audio_pc, in_samples, samples_front,
                   last_sample, chunk_i, plot, pixels, appended, drained,
                   plot_drawn, cell_vars,
                   window_vars, map_vars>>

\* A render tick, while the explored number of ticks allows it.
RedrawRequested ==
    /\ ticks < MaxTicks
    /\ redraw_requested(ticks + 1)

\* self.samples_back.lock().unwrap() returns, the length is tested and, above
\* the threshold, the front buffer is cleared and refilled from the drain.
RenderFlip ==
    /\ render_pc = "lock"
    /\ MutexAvailable(mutex)
    /\ mutex' = "render"
    /\ tick_queue' = samples_back
    /\ LET f == Flip(samples_front, samples_back)
       IN  /\ samples_front' = f.front
           /\ frame_swapped' = f.swapped
           /\ render_pc' = IF f.swapped THEN "drain" ELSE "unlock"
    /\ UNCHANGED <<samples_back, audio_pc, in_samples, last_sample,
                   previous_pos1, chunk_i, plot, pixels, ticks, appended,
                   drained, tick_front, frame_pairs, frame_dots, frame_hits,
                   plot_drawn, cell_vars,
                   window_vars, map_vars>>

\* The Drain is dropped: the queue is left empty.
drain_dropped(history) ==
    /\ render_pc = "drain"
    /\ drained' = history
    /\ samples_back' = drain_leaves(samples_back)
    /\ render_pc' = "unlock"
    /\ UNCHANGED <<mutex, audio_pc, in_samples, samples_front, last_sample,
                   previous_pos1, chunk_i, plot, pixels, ticks, appended,
                   tick_queue, tick_front, frame_swapped, frame_pairs,
                   frame_dots, frame_hits, plot_drawn, cell_vars,
                   window_vars, map_vars>>

RenderDrain == drain_dropped(drained \o samples_front)

\* The guard is dropped at the end of the "flip buffers" block.
RenderUnlock ==
    /\ render_pc = "unlock"
    /\ mutex' = flip_block_exit(mutex)
    /\ chunk_i' = 0
    /\ render_pc' = "plot"
    /\ UNCHANGED <<samples_back, audio_pc, in_samples, samples_front,
                   last_sample, previous_pos1, plot, pixels, ticks, appended,
                   drained, tick_queue, tick_front, frame_swapped, frame_pairs,
                   frame_dots, frame_hits, plot_drawn, cell_vars,
                   window_vars, map_vars>>

\* One iteration of `for channels in self.samples_front.chunks_exact(2)`.
RenderPlot ==
    /\ render_pc = "plot"
    /\ chunk_i < Len(ChunksExact(samples_front))
    /\ LET channels == ChunksExact(samples_front)[chunk_i + 1]
           width    == window_size[1]
           height   == window_size[2]
           from     == previous_sample(last_sample)
           previous == get_xy(width, height, from[1], from[2])
           xy       == get_xy(width, height, channels[1], channels[2])
           writes   == dot(width, height, previous_pos1,
                           previous[1], previous[2], xy[1], xy[2])
       IN  /\ plot' = ApplyWrites(plot, writes)
           /\ previous_pos1' = xy
           /\ last_sample' = <<channels[1], channels[2]>>
           /\ frame_pairs' = Append(frame_pairs, channels)
           /\ frame_dots' = Append(frame_dots, <<previous, xy>>)
           /\ frame_hits' = frame_hits \o writes
    /\ chunk_i' = chunk_i + 1
    /\ UNCHANGED <<samples_back, mutex, audio_pc, in_samples, render_pc,
                   samples_front, pixels, ticks, appended, drained, tick_queue,
                   tick_front, frame_swapped, plot_drawn, cell_vars,
                   window_vars, map_vars>>

\* The loop is exhausted: plot.done(), and render returns.
RenderDone ==
    /\ render_pc = "plot"
    /\ chunk_i >= Len(ChunksExact(samples_front))
    /\ LET d == done(window_size[1], window_size[2], plot)
       IN  /\ pixels' = d.pixels
           /\ plot' = d.plot
    /\ plot_drawn' = plot
    /\ render_pc' = "idle"
    /\ UNCHANGED <<samples_back, mutex, audio_pc, in_samples, samples_front,
                   last_sample, previous_pos1, chunk_i, ticks, appended,
                   drained, tick_queue, tick_front, frame_swapped, frame_pairs,
                   frame_dots, frame_hits, cell_vars,
                   window_vars, map_vars>>

Next ==
    \/ AudioCallback
    \/ AudioUnlock
    \/ RedrawRequested
    \/ RenderFlip
    \/ RenderDrain
    \/ RenderUnlock
    \/ RenderPlot
    \/ RenderDone

Spec == Init /\ [][Next]_vars

\* ------------------------------------------ the cell arithmetic alone
\* One persistence cell holding any u8, under the three operations the
\* pipeline applies to a cell: the accumulation of Plot::pixel, the fade of
\* Plot::done and the colour lookup of Plot::done.
CellInit ==
    /\ PipelineInit
    /\ WindowInit
    /\ MapIdle
    /\ cell \in 0 .. U8_MAX
    /\ cell_from = cell
    /\ cell_op = "none"
    /\ cell_color = <<0, 0, 0>>
    /\ cell_fades = 0

CellPixel ==
    /\ cell' = saturating_add(cell, INTENSITY)
    /\ cell_from' = cell
    /\ cell_op' = "pixel"
    /\ cell_fades' = 0
    /\ UNCHANGED <<cell_color, pipeline_vars, window_vars, map_vars>>

CellFade ==
    /\ cell' = Fade(cell)
    /\ cell_from' = cell
    /\ cell_op' = "fade"
    /\ cell_fades' = Min(cell_fades + 1, MaxFadeFrames)
    /\ UNCHANGED <<cell_color, pipeline_vars, window_vars, map_vars>>

CellColor ==
    /\ cell_color' = INTENSITY_COLORS(cell)
    /\ cell_from' = cell
    /\ cell_op' = "color"
    /\ UNCHANGED <<cell, cell_fades, pipeline_vars, window_vars, map_vars>>

CellNext == CellPixel \/ CellFade \/ CellColor

CellSpec == CellInit /\ [][CellNext]_vars

\* ------------------------------------------- the coordinate mapping alone
\* get_xy applied once to any width, height and sample pair; the samples are
\* in halves and range a little past the nominal -1.0 .. 1.0.
MapSamples == -4 .. 4

MapInit ==
    /\ PipelineInit
    /\ WindowInit
    /\ CellIdle
    /\ map_in \in (1 .. MaxSide) \X (1 .. MaxSide) \X MapSamples \X MapSamples
    /\ map_out = <<0, 0>>
    /\ map_op = "none"

MapApply ==
    /\ map_op = "none"
    /\ map_out' = get_xy(map_in[1], map_in[2], map_in[3], map_in[4])
    /\ map_op' = "get_xy"
    /\ UNCHANGED <<map_in, pipeline_vars, cell_vars, window_vars>>

MapNext == MapApply

MapSpec == MapInit /\ [][MapNext]_vars

\* ------------------------------------------------------ window resizing
\* Variant: the handler assigns the size the render tick reads.
resized_window_size_assigned(size, inner) == inner

\* The window_size the RedrawRequested handler reads after a Resized event:
\* the handler's `let window_size` is a new local, the captured one is kept.
resized_window_size(size, inner) == size

\* The inner sizes a resize can give the window.
ResizeTo == {<<Width + 1, Height>>, <<Width - 1, Height + 1>>, <<Width, Height>>}

\* WindowEvent::Resized, handled between two render ticks:
\* pixels.resize(window.inner_size()) resizes the surface alone.
Resized ==
    /\ render_pc = "idle"
    /\ \E inner \in ResizeTo \ {window_inner} :
          /\ window_inner' = inner
          /\ surface_size' = inner
          /\ window_size' = resized_window_size(window_size, inner)
    /\ UNCHANGED <<pipeline_vars, cell_vars, map_vars>>

\* Few samples are enough here: one batch above the threshold and a rest.
ResizeAudioCallback ==
    \E chunk \in Chunks :
        /\ Len(appended) + Len(chunk) <= BUFFER_SIZE + 2
        /\ callback(chunk, appended \o chunk)

ResizeNext ==
    \/ ResizeAudioCallback
    \/ AudioUnlock
    \/ Resized
    \/ RedrawRequested
    \/ RenderFlip
    \/ RenderDrain
    \/ RenderUnlock
    \/ RenderPlot
    \/ RenderDone

ResizeSpec == Init /\ [][ResizeNext]_vars

\* ------------------------------------------------- one batch end to end
\* The stereo pairs (0,0), (1,0), (0,1) as interleaved samples, in halves.
ScenarioBatch == <<0, 0, 2, 0, 0, 2>>

\* The host may hand the batch over whole or in smaller chunks.
ScenarioChunkLens == {1, 2, Len(ScenarioBatch)}

ScenarioCallback ==
    \E n \in ScenarioChunkLens :
        /\ Len(appended) + n <= Len(ScenarioBatch)
        /\ LET chunk == SubSeq(ScenarioBatch, Len(appended) + 1,
                                Len(appended) + n)
           IN  callback(chunk, appended \o chunk)

ScenarioNext ==
    \/ ScenarioCallback
    \/ AudioUnlock
    \/ RedrawRequested
    \/ RenderFlip
    \/ RenderDrain
    \/ RenderUnlock
    \/ RenderPlot
    \/ RenderDone

ScenarioSpec == Init /\ [][ScenarioNext]_vars

\* ------------------------------------------------- capture that never stops
\* The callback keeps delivering and the ticks keep coming. The samples are
\* silence, the queue is explored up to a length above the threshold, and the
\* histories of appended and drained samples are not kept.
LiveChunks == {[i \in 1 .. n |-> 0] : n \in ChunkLens}

LiveQueueCap == BUFFER_SIZE + 2

LiveCallback ==
    \E chunk \in LiveChunks :
        /\ Len(samples_back) + Len(chunk) <= LiveQueueCap
        /\ callback(chunk, appended)

LiveRedrawRequested == redraw_requested(Min(ticks + 1, MaxTicks))

LiveDrain == drain_dropped(drained)

LiveNext ==
    \/ LiveCallback
    \/ AudioUnlock
    \/ LiveRedrawRequested
    \/ RenderFlip
    \/ LiveDrain
    \/ RenderUnlock
    \/ RenderPlot
    \/ RenderDone

\* The steps the event loop thread takes without waiting for anything,
\* the iterations of the plotting loop aside.
LiveRenderRuns ==
    \/ LiveRedrawRequested
    \/ LiveDrain
    \/ RenderUnlock
    \/ RenderDone

\* An iteration of the plotting loop, seen through its index alone: enabled
\* exactly when RenderPlot is, and the steps that advance the index are the
\* RenderPlot steps.
PlotLoopAdvances ==
    /\ render_pc = "plot"
    /\ chunk_i < Len(ChunksExact(samples_front))
    /\ chunk_i' = chunk_i + 1

\* Both contexts keep running, and a context that asks for the mutex again
\* and again while it keeps becoming free gets it.
LiveSpec ==
    /\ Init
    /\ [][LiveNext]_vars
    /\ SF_vars(LiveCallback)
    /\ WF_vars(AudioUnlock)
    /\ SF_vars(RenderFlip)
    /\ WF_vars(LiveRenderRuns)
    /\ WF_chunk_i(PlotLoopAdvances)


\* ---------------------------------------------------------------- claims
IsPrefix(a, b) == Len(a) <= Len(b) /\ SubSeq(b, 1, Len(a)) = a

\* The tick has entered render and is past the flip.
PastFlip == ticks > 0 /\ render_pc \in {"drain", "unlock", "plot", "idle"}

\* The latest tick has run to completion.
FrameComplete == ticks > 0 /\ render_pc = "idle"

\* C1: under every interleaving of the callback's append and the tick's drain,
\* the batches drained so far followed by the queue's contents are exactly the
\* samples appended so far, in append order: none lost, none duplicated.
C1_NoSampleLostOrDuplicated == drained \o samples_back = appended

\* C1 witness: a batch has been drained, newer samples are queued, and the tick
\* waits for the mutex while the callback holds it.
C1_Witness ==
    /\ drained # <<>>
    /\ samples_back # <<>>
    /\ mutex = "audio"
    /\ render_pc = "lock"

\* C2: a tick that finds the queue at or below the threshold drains nothing:
\* when it releases the mutex the queue is exactly as it found it, and nothing
\* of what it found is removed later in the tick.
C2_BelowThresholdQueueUntouched ==
    (PastFlip /\ Len(tick_queue) <= BUFFER_SIZE) =>
        /\ ~frame_swapped
        /\ IsPrefix(tick_queue, samples_back)
        /\ (render_pc = "unlock" => samples_back = tick_queue)

\* C2 witness: the tick found exactly BUFFER_SIZE samples and left them queued.
C2_Witness ==
    /\ render_pc = "unlock"
    /\ Len(tick_queue) = BUFFER_SIZE
    /\ tick_queue # <<>>
    /\ samples_back = tick_queue

\* C3: a tick that finds more than the threshold removes the whole queue: when
\* it releases the mutex the queue is empty and the front buffer is exactly the
\* removed samples in queued order, with nothing of its previous contents.
C3_AboveThresholdSwapsWholesale ==
    (render_pc = "unlock" /\ Len(tick_queue) > BUFFER_SIZE) =>
        /\ frame_swapped
        /\ samples_back = <<>>
        /\ samples_front = tick_queue

\* C3 witness: a swap that replaced a non-empty, different front buffer.
C3_Witness ==
    /\ render_pc = "unlock"
    /\ Len(tick_queue) > BUFFER_SIZE
    /\ tick_front # <<>>
    /\ tick_front # tick_queue
    /\ samples_front = tick_queue

\* C4 as stated: on a tick whose drain returns nothing the front buffer keeps
\* its contents and nothing is drawn: no segment, no accumulated intensity.
C4_StaleFrontNotRedrawn ==
    (PastFlip /\ ~frame_swapped /\ render_pc # "drain") =>
        /\ samples_front = tick_front
        /\ frame_dots = <<>>
        /\ frame_hits = <<>>

\* C4 amended: on a tick whose drain returns nothing the front buffer keeps
\* its contents and is plotted again in full: once the tick has completed, one
\* segment has been drawn per stereo pair of the retained buffer.
C4_StaleFrontRedrawn ==
    (FrameComplete /\ ~frame_swapped) =>
        /\ samples_front = tick_front
        /\ Len(frame_dots) = Len(tick_front) \div 2
        /\ \A k \in 1 .. Len(frame_dots) :
              frame_dots[k][2] =
                  get_xy(Width, Height, tick_front[2 * k - 1], tick_front[2 * k])

\* C4 witness: a completed tick that did not swap and accumulated intensity
\* from the retained front buffer.
C4_Witness ==
    /\ FrameComplete
    /\ ~frame_swapped
    /\ tick_front # <<>>
    /\ frame_hits # <<>>

\* C5: one pass over a front buffer of n samples consumes exactly n \div 2
\* pairs, the i-th being samples 2i and 2i+1 (from 0) in order; a trailing odd
\* sample is ignored and the pass still completes.
C5_PairsInOrder ==
    PastFlip =>
        /\ Len(frame_pairs) <= Len(samples_front) \div 2
        /\ \A k \in 1 .. Len(frame_pairs) :
              frame_pairs[k] = <<samples_front[2 * k - 1], samples_front[2 * k]>>
        /\ (render_pc = "idle" => Len(frame_pairs) = Len(samples_front) \div 2)

\* C5 witness: a completed pass over an odd-length front buffer of two pairs
\* and one trailing sample.
C5_Witness ==
    /\ FrameComplete
    /\ Len(samples_front) % 2 = 1
    /\ Len(frame_pairs) >= 2


\* C6: whatever the endpoints of the segments, every accumulation of a tick
\* goes to a cell (x, y) with 0 <= x < Width and 0 <= y < Height, through the
\* index x + y * Width of that very cell, and the grid keeps its cells.
C6_RasterizerClips ==
    /\ DOMAIN plot = Cells
    /\ \A k \in 1 .. Len(frame_hits) :
          LET hit == frame_hits[k]
          IN  /\ 0 <= hit[1] /\ hit[1] < Width
              /\ 0 <= hit[2] /\ hit[2] < Height
              /\ hit[3] = hit[1] + hit[2] * Width
              /\ hit[3] \in Cells

\* C6 witness: a tick drew a segment from a negative x to x = Width, another
\* ending at y = Height, and accumulated intensity on the way.
C6_Witness ==
    /\ \E k \in 1 .. Len(frame_dots) :
          frame_dots[k][1][1] < 0 /\ frame_dots[k][2][1] = Width
    /\ \E k \in 1 .. Len(frame_dots) : frame_dots[k][2][2] >= Height
    /\ frame_hits # <<>>

\* C7: accumulating 16 into a cell holding v leaves min(255, v + 16): the cell
\* stays within 0..255 and is never lowered.
C7_SaturatingAccumulate ==
    /\ cell \in 0 .. 255
    /\ (cell_op = "pixel" =>
           /\ cell = Min(255, cell_from + 16)
           /\ cell >= cell_from)

\* C7 witness: an accumulation that saturated (v + 16 would exceed 255).
C7_Witness ==
    /\ cell_op = "pixel"
    /\ cell_from + 16 > 255
    /\ cell_from < 255
    /\ cell = 255

\* C8: the fade replaces v by v * 0.85 truncated, i.e. (85 * v) \div 100; a
\* cell at 0 stays at 0 and no fade raises a cell.
C8_DecayTruncates ==
    cell_op = "fade" =>
        /\ cell = (85 * cell_from) \div 100
        /\ cell <= cell_from
        /\ (cell_from = 0 => cell = 0)

\* C8 witness: the fade of 20, whose exact product with 0.85 is the integer 17
\* (the f32 product lies just above it).
C8_Witness ==
    /\ cell_op = "fade"
    /\ cell_from = 20
    /\ cell = 17

\* C9: when a tick has completed, every cell of the grid holds the fade,
\* applied once, of what the tick's drawing left in it, and every pixel's
\* colour is the grid base plus the colour of that not-yet-faded intensity.
C9_DecayOnceAfterComposite ==
    FrameComplete =>
        \A i \in Cells :
            LET base  == IF OnGrid(Width, Height, i % Width, i \div Width)
                         THEN 24 ELSE 0
                color == INTENSITY_COLORS(plot_drawn[i])
            IN  /\ plot[i] = Fade(plot_drawn[i])
                /\ pixels[i][1] = Min(255, base + color[1])
                /\ pixels[i][2] = Min(255, base + color[2])
                /\ pixels[i][3] = Min(255, base + color[3])

\* C9 witness: a completed tick that left a cell at 32 or more, where one
\* fade, two fades and no fade give three different values and colours.
C9_Witness ==
    /\ FrameComplete
    /\ \E i \in Cells : plot_drawn[i] >= 32 /\ plot[i] < plot_drawn[i]

\* C10 as stated: green is non-decreasing in the intensity; red and blue are
\* equal, 0 up to intensity 128, non-decreasing above it, and saturate at 255
\* (the top intensity maps to red = blue = 255).
C10_ColorTableSaturates ==
    cell_op = "color" =>
        /\ cell_color[1] = cell_color[3]
        /\ (cell <= 128 => cell_color[1] = 0)
        /\ (cell > 0 => cell_color[2] >= INTENSITY_COLORS(cell - 1)[2])
        /\ (cell > 128 => cell_color[1] >= INTENSITY_COLORS(cell - 1)[1])
        /\ (cell = 255 => cell_color[1] = 255)

\* C10 amended: green is non-decreasing in the intensity and is 255 from
\* intensity 128 on; red and blue are equal, 0 up to intensity 128 and
\* non-decreasing above it, and never reach the clamp: they end at 190 for
\* intensity 255.
C10_ColorTableShape ==
    cell_op = "color" =>
        /\ cell_color[1] = cell_color[3]
        /\ (cell <= 128 => cell_color[1] = 0)
        /\ (cell > 0 => cell_color[2] >= INTENSITY_COLORS(cell - 1)[2])
        /\ (cell > 128 => cell_color[1] >= INTENSITY_COLORS(cell - 1)[1])
        /\ (cell >= 128 => cell_color[2] = 255)
        /\ cell_color[1] <= 190
        /\ (cell = 255 => cell_color[1] = 190)

\* C10 witness: the colour of the top intensity has been looked up.
C10_Witness ==
    /\ cell_op = "color"
    /\ cell = 255
    /\ cell_color = <<190, 255, 190>>

\* q is the quarter of n with the fraction dropped toward zero.
IsQuarterTowardZero(n, q) ==
    IF n >= 0 THEN 4 * q <= n /\ n < 4 * q + 4
              ELSE 4 * q >= n /\ n > 4 * q - 4

\* C11: the mapping gives x = left*(width/2) + width/2 and
\* y = -right*(height/2) + height/2 with the fraction dropped toward zero, for
\* every width and height, odd ones included; so (0,0) maps to the centre
\* (W/2, H/2), (1,1) to (W, 0) and (-1,-1) to (0, H).
C11_MappingTruncatesTowardZero ==
    map_op = "get_xy" =>
        LET w == map_in[1]
            h == map_in[2]
            left == map_in[3]
            right == map_in[4]
        IN  /\ IsQuarterTowardZero(left * w + 2 * w, map_out[1])
            /\ IsQuarterTowardZero(2 * h - right * h, map_out[2])
            /\ (left = 0 /\ right = 0 => map_out = <<w \div 2, h \div 2>>)
            /\ (left = 2 /\ right = 2 => map_out = <<w, 0>>)
            /\ (left = -2 /\ right = -2 => map_out = <<0, h>>)

\* C11 witness: an odd width and a left sample below -1.0, whose negative
\* x is cut to 0 rather than rounded down to -1.
C11_Witness ==
    /\ map_op = "get_xy"
    /\ map_in[1] = 3
    /\ map_in[3] = -3
    /\ map_out[1] = 0

\* The sample pair plotted last before the current tick: the last whole pair
\* of the front buffer the tick started with, or (0.0, 0.0) when nothing had
\* been plotted yet.
PairBeforeTick ==
    IF Len(tick_front) < 2 THEN <<0, 0>>
    ELSE ChunksExact(tick_front)[Len(ChunksExact(tick_front))]

\* C12: every segment starts at the mapped pair plotted immediately before it;
\* the first segment of a tick starts at the mapped last pair of the front
\* buffer of the tick before, also when a new batch was swapped in between.
\* Only the first segment of the run starts from the mapped (0, 0) sample.
C12_SegmentsStartAtLastPoint ==
    PastFlip =>
        /\ \A k \in 1 .. Len(frame_dots) :
              LET before == IF k > 1 THEN frame_pairs[k - 1] ELSE PairBeforeTick
              IN  frame_dots[k][1] =
                      get_xy(Width, Height, before[1], before[2])
        /\ (Len(tick_front) < 2 /\ Len(frame_dots) > 0 =>
              frame_swapped /\ drained = samples_front)

\* C12 witness: a new batch was swapped in over an older one that ended away
\* from the centre, and its first segment starts where the older one ended.
C12_Witness ==
    /\ PastFlip
    /\ frame_swapped
    /\ Len(tick_front) >= 2
    /\ tick_front # samples_front
    /\ Len(frame_dots) >= 1
    /\ frame_dots[1][1] # get_xy(Width, Height, 0, 0)
    /\ frame_dots[1][1] # frame_dots[1][2]

\* C13: once the render target is resized, the persistence grid has exactly
\* width*height cells for the current target size, and frames are rendered
\* with the new width and height.
C13_GridFollowsTargetSize ==
    /\ DOMAIN plot = 0 .. (window_inner[1] * window_inner[2] - 1)
    /\ window_size = window_inner

\* C13 amended: a resize changes the presentation surface only. The grid and
\* the pixel buffer keep the cells of the startup size, the persisted
\* intensities are kept (what a frame left is its drawn grid, faded), and
\* every frame is rendered with the startup width and height.
C13_ResizeKeepsGrid ==
    /\ surface_size = window_inner
    /\ window_size = <<Width, Height>>
    /\ DOMAIN plot = Cells
    /\ DOMAIN pixels = Cells
    /\ (FrameComplete => \A i \in Cells : plot[i] = Fade(plot_drawn[i]))
    /\ (PastFlip =>
          \A k \in 1 .. Len(frame_dots) :
              frame_dots[k][2] =
                  get_xy(Width, Height, frame_pairs[k][1], frame_pairs[k][2]))

\* C13 witness: the window has another size than at startup, the grid holds
\* intensity from before, and a frame is being plotted.
C13_Witness ==
    /\ window_inner # <<Width, Height>>
    /\ surface_size = window_inner
    /\ render_pc = "plot"
    /\ chunk_i > 0
    /\ ticks > 1
    /\ \E i \in Cells : plot_drawn[i] > 0 /\ plot[i] >= Fade(plot_drawn[i])

Abs(n) == IF n < 0 THEN -n ELSE n

Max(a, b) == IF a >= b THEN a ELSE b

\* Cell p lies on the straight line from a to b: between the two ends and at
\* most half a cell off the line along the shorter axis.
NearSegment(a, b, p) ==
    LET dx == b[1] - a[1]
        dy == b[2] - a[2]
        cross == dx * (p[2] - a[2]) - dy * (p[1] - a[1])
    IN  /\ Min(a[1], b[1]) <= p[1] /\ p[1] <= Max(a[1], b[1])
        /\ Min(a[2], b[2]) <= p[2] /\ p[2] <= Max(a[2], b[2])
        /\ 2 * Abs(cross) <= Max(Abs(dx), Abs(dy))

\* The cells of the grid on the path centre -> middle of the right edge ->
\* centre of the top edge.
ScenarioPath ==
    LET centre == <<Width \div 2, Height \div 2>>
        right  == <<Width, Height \div 2>>
        top    == <<Width \div 2, 0>>
        line   == Bresenham(centre[1], centre[2], right[1], right[2])
                  \o Bresenham(right[1], right[2], top[1], top[2])
    IN  {line[k] : k \in {j \in 1 .. Len(line) :
                            /\ 0 <= line[j][1] /\ line[j][1] < Width
                            /\ 0 <= line[j][2] /\ line[j][2] < Height}}

\* The batch was swapped in whole by this tick, the first to plot anything.
ScenarioFrame ==
    /\ FrameComplete
    /\ frame_swapped
    /\ tick_front = <<>>
    /\ samples_front = ScenarioBatch

\* C14: when (0,0), (1,0), (0,1) is rendered as the only batch onto an empty
\* grid, the cells that receive intensity are exactly the cells of the grid on
\* the straight path centre -> middle of the right edge -> centre of the top
\* edge; every pixel off that path is black, or 24 per channel on a grid line.
C14_ScenarioDrawsPath ==
    ScenarioFrame =>
        LET centre == <<Width \div 2, Height \div 2>>
            right  == <<Width, Height \div 2>>
            top    == <<Width \div 2, 0>>
            hit    == {<<frame_hits[k][1], frame_hits[k][2]>> :
                          k \in 1 .. Len(frame_hits)}
        IN  /\ hit = ScenarioPath
            /\ \A p \in hit : NearSegment(centre, right, p)
                              \/ NearSegment(right, top, p)
            /\ {<<i % Width, i \div Width>> : i \in {j \in Cells : plot_drawn[j] > 0}}
                   = ScenarioPath
            /\ \A i \in Cells :
                  <<i % Width, i \div Width>> \notin ScenarioPath =>
                      LET base == IF OnGrid(Width, Height, i % Width, i \div Width)
                                  THEN DIV_BRIGHTNESS ELSE 0
                      IN  /\ pixels[i][1] = base
                          /\ pixels[i][2] = base
                          /\ pixels[i][3] = base

\* C14 witness: the batch has been rendered; the centre and the top-centre
\* cell are lit, and some pixel off the path shows a grid line.
C14_Witness ==
    /\ ScenarioFrame
    /\ plot_drawn[plot_index(Width, Width \div 2, Height \div 2)] > 0
    /\ plot_drawn[plot_index(Width, Width \div 2, 0)] > 0
    /\ pixels[plot_index(Width, Width \div 2, 0)][2] > DIV_BRIGHTNESS
    /\ \E i \in Cells :
          /\ plot_drawn[i] = 0
          /\ pixels[i][1] = DIV_BRIGHTNESS

\* The cell plotted last before the current tick, were it carried over from
\* tick to tick; (0, 0) before anything was plotted.
LastPlottedCellCarried ==
    IF Len(tick_front) < 2 THEN <<0, 0>>
    ELSE get_xy(Width, Height, PairBeforeTick[1], PairBeforeTick[2])

\* The writes of the frame's segments from the k-th on, each suppressing the
\* cell the segment before it ended on.
RECURSIVE SegmentWrites(_, _)
SegmentWrites(k, lastPlottedCell) ==
    IF k > Len(frame_dots)
    THEN <<>>
    ELSE dot(Width, Height, lastPlottedCell,
             frame_dots[k][1][1], frame_dots[k][1][2],
             frame_dots[k][2][1], frame_dots[k][2][2])
         \o SegmentWrites(k + 1, frame_dots[k][2])

\* C15: each segment adds 16 to every cell of its Bresenham path except the
\* cell the segment before it ended on, and that cell is remembered from call
\* to call within a frame and from frame to frame for the whole run.
C15_LastPlottedCellPersists ==
    PastFlip => frame_hits = SegmentWrites(1, LastPlottedCellCarried)

\* A pixel is on a grid line: column width/(2*5) + k*(width/5), or row
\* height/(2*5) + k*(height/5), for k in 0..4.
OnGridLine(w, h, x, y) ==
    \E k \in 0 .. 4 :
        \/ x = w \div (2 * 5) + k * (w \div 5)
        \/ y = h \div (2 * 5) + k * (h \div 5)

\* The grid lines Plot::done draws are those columns and rows, for every size
\* up to four divisions' worth of cells per division.
GridSides == 1 .. 4 * DIVISIONS

GridLinesAgree ==
    \A w \in GridSides, h \in GridSides :
        \A x \in 0 .. (w - 1), y \in 0 .. (h - 1) :
            OnGrid(w, h, x, y) <=> OnGridLine(w, h, x, y)

\* C16: after every frame each pixel's R, G and B is
\* min(255, base + colour-table component of the cell's intensity), with base
\* 24 on a grid line and 0 elsewhere: the frame is a function of the grid as
\* drawn and of the dimensions, and nothing of the frame before shows through.
C16_PixelsOverwrittenEachFrame ==
    /\ GridLinesAgree
    /\ FrameComplete =>
          \A i \in Cells :
              LET base  == IF OnGridLine(Width, Height, i % Width, i \div Width)
                           THEN 24 ELSE 0
                  color == INTENSITY_COLORS(plot_drawn[i])
              IN  \A c \in 1 .. 3 : pixels[i][c] = Min(255, base + color[c])

\* C16 witness: a second frame is complete; it shows a trace on a grid line
\* and a black pixel.
C16_Witness ==
    /\ FrameComplete
    /\ ticks >= 2
    /\ \E i \in Cells :
          /\ OnGridLine(Width, Height, i % Width, i \div Width)
          /\ plot_drawn[i] > 0
          /\ pixels[i][2] > 24
    /\ \E i \in Cells : pixels[i] = <<0, 0, 0, 0>>

\* C17: the render tick holds the queue's mutex only from its lock() to the
\* end of the flip block, never while it plots or composites, and the callback
\* only for its append; whoever holds the mutex can go on to release it
\* without waiting for anything, and whoever waits gets it once it is free.
C17_MutexHeldForFlipOnly ==
    /\ (mutex = "render" <=> render_pc \in {"drain", "unlock"})
    /\ (mutex = "audio" <=> audio_pc = "unlock")
    /\ (render_pc = "drain" => ENABLED RenderDrain)
    /\ (render_pc = "unlock" => ENABLED RenderUnlock)
    /\ (audio_pc = "unlock" => ENABLED AudioUnlock)
    /\ (render_pc = "lock" /\ mutex = "free" => ENABLED RenderFlip)
    /\ (/\ render_pc \in {"plot", "idle"}
        /\ audio_pc = "idle"
        /\ Len(appended) < MaxAppended
        => ENABLED AudioCallback)

\* C17 witness: the callback holds the mutex while the render tick is in the
\* middle of plotting its segments.
C17_Witness ==
    /\ render_pc = "plot"
    /\ chunk_i > 0
    /\ chunk_i < Len(ChunksExact(samples_front))
    /\ mutex = "audio"
    /\ audio_pc = "unlock"

\* C18: a fade takes every positive cell value to a strictly smaller one, no
\* positive value is left as it is, and a cell that is only faded, never
\* accumulated into, is 0 after MaxFadeFrames frames at the latest.
C18_FadeReachesZero ==
    /\ (cell_op = "fade" /\ cell_from > 0 => cell < cell_from)
    /\ (cell > 0 => Fade(cell) < cell)
    /\ (cell_fades >= MaxFadeFrames => cell = 0)

\* C18 witness: the last of MaxFadeFrames fades in a row takes a cell from 1
\* to 0.
C18_Witness ==
    /\ cell_op = "fade"
    /\ cell_fades = MaxFadeFrames
    /\ cell_from = 1
    /\ cell = 0

\* C19: the render call that drains the queue plots every whole stereo pair of
\* what it drained, in append order, before it returns; while it plots, the
\* pairs plotted so far are the first pairs of the drained batch; and the
\* front buffer is only ever replaced once all its pairs have been plotted.
C19_DrainedBatchPlottedWhole ==
    /\ (PastFlip /\ frame_swapped =>
          /\ Len(frame_pairs) <= Len(tick_queue) \div 2
          /\ \A k \in 1 .. Len(frame_pairs) :
                /\ frame_pairs[k] = <<tick_queue[2 * k - 1], tick_queue[2 * k]>>
                /\ frame_dots[k][2] = get_xy(Width, Height, tick_queue[2 * k - 1],
                                             tick_queue[2 * k])
          /\ (render_pc \in {"unlock", "plot", "idle"} =>
                IsPrefix(tick_queue, SubSeq(appended,
                                            Len(drained) - Len(tick_queue) + 1,
                                            Len(appended)))))
    /\ (FrameComplete /\ frame_swapped =>
          Len(frame_pairs) = Len(tick_queue) \div 2)
    /\ (render_pc \in {"idle", "lock"} =>
          chunk_i = Len(samples_front) \div 2)

\* C19 witness: the render tick lagged until the queue held every sample of
\* the run, an odd number, and then plotted all its whole pairs in one call.
C19_Witness ==
    /\ FrameComplete
    /\ frame_swapped
    /\ Len(tick_queue) = MaxAppended
    /\ Len(frame_pairs) = MaxAppended \div 2
    /\ Len(frame_pairs) >= 2

\* The render tick has just drained: the queue is empty and what it held is
\* the front buffer.
JustDrained ==
    /\ render_pc = "unlock"
    /\ frame_swapped
    /\ samples_back = <<>>
    /\ tick_queue # <<>>
    /\ samples_front = tick_queue

\* C20: while the callback keeps delivering and the ticks keep coming, the
\* queue is drained into the front buffer again and again: its length is back
\* at 0 infinitely often, so every appended sample is eventually drained.
C20_QueueDrainedInfinitelyOften == []<>JustDrained

\* C20 witness: a later tick drains a queue that filled up again after an
\* earlier drain.
C20_Witness ==
    /\ JustDrained
    /\ ticks >= 2
    /\ tick_front # <<>>
    /\ Len(tick_queue) = LiveQueueCap

=============================================================================
